---- MODULE Spec2Model ----
(***************************************************************************)
(* The flag game of script.js (class FlagGame): the flag source loader     *)
(* (loadFlags and its three parsers) and the round state machine           *)
(* (startGame, playRound, shuffleFlags, startCountdown, showCountryName),  *)
(* driven by clicks, Enter key presses, fetch responses, GSAP tween        *)
(* completions and the countdown interval.                                 *)
(***************************************************************************)
EXTENDS Integers, Sequences, FiniteSets, TLC

(***************************************************************************)
(* Bounds of the model.                                                    *)
(***************************************************************************)
\* longest country array in a response body
MaxRecords ==
  2

\* most start-screen fade-out tweens alive at once
MaxFades ==
  2

\* slots for rounds whose playRound body has been entered
MaxRounds ==
  2

(***************************************************************************)
(* Program constants.                                                      *)
(***************************************************************************)
\* apiEndpoints has four entries
NumSources ==
  4

\* shuffleCount = 10 + floor(random * 6)
MinShuffleCount ==
  10

ShuffleCountSpread ==
  6

\* let count = 1
CountdownStart ==
  1

(***************************************************************************)
(* JavaScript values.  Undef stands for undefined (an absent property);    *)
(* a || b yields a when a is truthy and b otherwise.                       *)
(***************************************************************************)
Undef ==
  "<undefined>"

Truthy(v) ==
  v # Undef /\ v # ""

Or(a, b) ==
  IF Truthy(a) THEN a ELSE b

\* what a name that is an object (not a string) looks like to includes()
\* and to a property lookup: it equals no string of either table
ObjectName ==
  "[object Object]"

(***************************************************************************)
(* filterPopularCountries and translateToUzbek.                            *)
(***************************************************************************)
popularCountryNames ==
  {
    "France", "Germany", "Italy", "Spain", "United Kingdom", "Netherlands",
    "Belgium", "Switzerland", "Austria", "Sweden", "Norway", "Denmark",
    "Finland", "Poland", "Greece", "Portugal", "Ireland", "Czech Republic",
    "Hungary", "Romania", "Croatia", "Serbia", "Bulgaria", "Ukraine",
    "Russia", "Turkey", "United States", "Canada", "Mexico", "Brazil",
    "Argentina", "Chile", "Colombia", "Peru", "Venezuela", "China", "Japan",
    "India", "South Korea", "Indonesia", "Thailand", "Vietnam",
    "Philippines", "Malaysia", "Singapore", "Pakistan", "Bangladesh",
    "Saudi Arabia", "Iran", "Iraq", "Uzbekistan", "Kazakhstan", "Australia",
    "New Zealand", "South Africa", "Egypt", "Nigeria"
  }

translations ==
  (
    "France" :> "Fransiya" @@
    "Japan" :> "Yaponiya" @@
    "Kazakhstan" :> "Qozog'iston" @@
    "Germany" :> "Germaniya" @@
    "United Kingdom" :> "Buyuk Britaniya" @@
    "United States" :> "Amerika Qo'shma Shtatlari" @@
    "Russia" :> "Rossiya" @@
    "China" :> "Xitoy" @@
    "India" :> "Hindiston" @@
    "Brazil" :> "Braziliya" @@
    "Italy" :> "Italiya" @@
    "Spain" :> "Ispaniya" @@
    "Canada" :> "Kanada" @@
    "Australia" :> "Avstraliya" @@
    "South Korea" :> "Janubiy Koreya" @@
    "Mexico" :> "Meksika" @@
    "Argentina" :> "Argentina" @@
    "Turkey" :> "Turkiya" @@
    "Poland" :> "Polsha" @@
    "Netherlands" :> "Niderlandiya" @@
    "Belgium" :> "Belgiya" @@
    "Sweden" :> "Shvetsiya" @@
    "Norway" :> "Norvegiya" @@
    "Denmark" :> "Daniya" @@
    "Finland" :> "Finlandiya" @@
    "Switzerland" :> "Shveytsariya" @@
    "Austria" :> "Avstriya" @@
    "Greece" :> "Gretsiya" @@
    "Portugal" :> "Portugaliya" @@
    "Egypt" :> "Misr" @@
    "South Africa" :> "Janubiy Afrika" @@
    "Nigeria" :> "Nigeriya" @@
    "Kenya" :> "Keniya" @@
    "Morocco" :> "Marokash" @@
    "Algeria" :> "Jazoir" @@
    "Tunisia" :> "Tunis" @@
    "Saudi Arabia" :> "Saudiya Arabistoni" @@
    "Iran" :> "Eron" @@
    "Iraq" :> "Iroq" @@
    "Israel" :> "Isroil" @@
    "Pakistan" :> "Pokiston" @@
    "Bangladesh" :> "Bangladesh" @@
    "Indonesia" :> "Indoneziya" @@
    "Thailand" :> "Tailand" @@
    "Vietnam" :> "Vyetnam" @@
    "Philippines" :> "Filippin" @@
    "Malaysia" :> "Malayziya" @@
    "Singapore" :> "Singapur" @@
    "New Zealand" :> "Yangi Zelandiya" @@
    "Chile" :> "Chili" @@
    "Colombia" :> "Kolumbiya" @@
    "Peru" :> "Peru" @@
    "Venezuela" :> "Venesuela" @@
    "Ukraine" :> "Ukraina" @@
    "Romania" :> "Ruminiya" @@
    "Czech Republic" :> "Chexiya" @@
    "Hungary" :> "Vengriya" @@
    "Ireland" :> "Irlandiya" @@
    "Croatia" :> "Xorvatiya" @@
    "Serbia" :> "Serbiya" @@
    "Bulgaria" :> "Bolgariya" @@
    "Uzbekistan" :> "O'zbekiston"
  )

\* mutant: the name is returned untranslated
translateToUzbek_Untranslated(countryName) ==
  countryName

translateToUzbek(countryName) ==
  IF countryName \in DOMAIN translations
    THEN Or(translations[countryName], countryName)
    ELSE countryName

filterPopularCountries(allCountries) ==
  SelectSeq(allCountries, LAMBDA country : country.name \in popularCountryNames)

(***************************************************************************)
(* Country records as the endpoints deliver them.  A record's name is a    *)
(* string (kind "str", val the string), an object with a common property   *)
(* (kind "obj", val the value of common) or absent (kind "undef"); flags   *)
(* is an object with optional svg and png, or absent; a JSON null element  *)
(* of the array has isNull.                                                *)
(***************************************************************************)
NoName ==
  [kind |-> "undef", val |-> Undef]

StrName(s) ==
  [kind |-> "str", val |-> s]

ObjName(s) ==
  [kind |-> "obj", val |-> s]

NoFlags ==
  [present |-> FALSE, svg |-> Undef, png |-> Undef]

FlagsObj(svg, png) ==
  [present |-> TRUE, svg |-> svg, png |-> png]

BlankRecord ==
  [isNull |-> FALSE, name |-> NoName, nameCommon |-> Undef, flags |-> NoFlags,
   flag |-> Undef, flagUrl |-> Undef, flagSvg |-> Undef,
   cca2 |-> Undef, alpha2Code |-> Undef, code |-> Undef]

NullRecord ==
  [BlankRecord EXCEPT !.isNull = TRUE]

RawRecords ==
  { \* name a string, svg and png, allow-listed
    [BlankRecord EXCEPT !.name = StrName("France"),
                        !.flags = FlagsObj("fr.svg", "fr.png"),
                        !.cca2 = "FR", !.alpha2Code = "FR"],
    \* name an object, png only, allow-listed
    [BlankRecord EXCEPT !.name = ObjName("Japan"),
                        !.flags = FlagsObj(Undef, "jp.png"), !.cca2 = "JP"],
    \* translated but not allow-listed
    [BlankRecord EXCEPT !.name = ObjName("Kenya"),
                        !.flags = FlagsObj("ke.svg", Undef), !.cca2 = "KE"],
    \* flags present but with neither svg nor png
    [BlankRecord EXCEPT !.name = StrName("Canada"),
                        !.flags = FlagsObj(Undef, Undef), !.code = "CA"],
    \* image under the flag property only
    [BlankRecord EXCEPT !.name = StrName("Peru"), !.flag = "pe.svg",
                        !.code = "PE"],
    \* no image address at all
    [BlankRecord EXCEPT !.name = ObjName("Germany"), !.cca2 = "DE"],
    NullRecord }

\* country.name?.common
NameCommon(country) ==
  IF country.name.kind = "obj" THEN country.name.val ELSE Undef

\* country.name
NameValue(country) ==
  CASE country.name.kind = "str" -> country.name.val
    [] country.name.kind = "obj" -> ObjectName
    [] OTHER -> Undef

\* country.flags?.svg and country.flags?.png
FlagsSvg(country) ==
  IF country.flags.present THEN country.flags.svg ELSE Undef

FlagsPng(country) ==
  IF country.flags.present THEN country.flags.png ELSE Undef

Entry(name, nameUzbek, flagUrl, code) ==
  [name |-> name, nameUzbek |-> nameUzbek, flagUrl |-> flagUrl, code |-> code]

HasNull(s) ==
  \E i \in 1..Len(s) : s[i].isNull

\* results of a parser: null, a thrown TypeError, or a list of entries
ParsedNull ==
  [isNull |-> TRUE, threw |-> FALSE, list |-> <<>>]

ParsedThrow ==
  [isNull |-> FALSE, threw |-> TRUE, list |-> <<>>]

Parsed(list) ==
  [isNull |-> FALSE, threw |-> FALSE, list |-> list]

\* the filter of parseRestCountriesV3 and parseRestCountriesV2
HasFlagsImage(country) ==
  country.flags.present /\ Truthy(Or(country.flags.svg, country.flags.png))

V3Entry(country) ==
  Entry(Or(NameCommon(country), NameValue(country)),
        translateToUzbek(Or(NameCommon(country), NameValue(country))),
        Or(FlagsSvg(country), FlagsPng(country)),
        country.cca2)

parseRestCountriesV3(data) ==
  IF data.wrap # "array" THEN ParsedNull
  ELSE IF HasNull(data.countries) THEN ParsedThrow
  ELSE LET kept == SelectSeq(data.countries, HasFlagsImage)
       IN  Parsed(filterPopularCountries(
             [k \in 1..Len(kept) |-> V3Entry(kept[k])]))

V2Entry(country) ==
  Entry(NameValue(country),
        translateToUzbek(NameValue(country)),
        Or(FlagsSvg(country), FlagsPng(country)),
        country.alpha2Code)

parseRestCountriesV2(data) ==
  IF data.wrap # "array" THEN ParsedNull
  ELSE IF HasNull(data.countries) THEN ParsedThrow
  ELSE LET kept == SelectSeq(data.countries, HasFlagsImage)
       IN  Parsed(filterPopularCountries(
             [k \in 1..Len(kept) |-> V2Entry(kept[k])]))

\* the filter of parseNextJsCountries
HasAnyFlagField(country) ==
  \/ Truthy(country.flag)
  \/ country.flags.present
  \/ Truthy(country.flagUrl)
  \/ Truthy(country.flagSvg)

NextJsName(country) ==
  Or(Or(NameCommon(country), NameValue(country)), country.nameCommon)

NextJsEntry(country) ==
  Entry(NextJsName(country),
        translateToUzbek(NextJsName(country)),
        Or(Or(Or(Or(country.flag, FlagsSvg(country)), FlagsPng(country)),
              country.flagUrl), country.flagSvg),
        Or(Or(country.cca2, country.alpha2Code), country.code))

parseNextJsCountries(data) ==
  IF data.wrap \notin {"pageProps", "array", "data"} THEN ParsedNull
  ELSE IF HasNull(data.countries) THEN ParsedThrow
  ELSE LET kept == SelectSeq(data.countries, HasAnyFlagField)
       IN  Parsed(filterPopularCountries(
             [k \in 1..Len(kept) |-> NextJsEntry(kept[k])]))

(***************************************************************************)
(* What a fetch can settle to: a rejection, a response with a non-success  *)
(* status, or a success response with a JSON body.  In a body, status 0    *)
(* stands for an absent status property, embedded for _embedded.errors,    *)
(* wrap for the place of the country array: the body itself ("array"),     *)
(* pageProps.countries, data, or nowhere ("none").                         *)
(***************************************************************************)
EmptyJson ==
  [status |-> 0, message |-> Undef, embedded |-> FALSE,
   wrap |-> "none", countries |-> <<>>]

ErrorJsons ==
  { [EmptyJson EXCEPT !.status = 400,
                      !.message = "'fields' query not specified"],
    [EmptyJson EXCEPT !.status = 404, !.message = "Not Found"],
    [EmptyJson EXCEPT !.embedded = TRUE] }

CountryArrays ==
  UNION { [1..n -> RawRecords] : n \in 0..MaxRecords }

DataJsons ==
  { [EmptyJson EXCEPT !.wrap = w, !.countries = a] :
      w \in {"array", "pageProps", "data"}, a \in CountryArrays }

JsonBodies ==
  ErrorJsons \cup {EmptyJson} \cup DataJsons

Responses ==
  { [rejected |-> TRUE, ok |-> FALSE, httpStatus |-> 0, json |-> EmptyJson],
    [rejected |-> FALSE, ok |-> FALSE, httpStatus |-> 404, json |-> EmptyJson] }
  \cup { [rejected |-> FALSE, ok |-> TRUE, httpStatus |-> 200, json |-> j] :
           j \in JsonBodies }

NoResponse ==
  [rejected |-> FALSE, ok |-> FALSE, httpStatus |-> 0, json |-> EmptyJson]

\* `HTTP ${response.status}`
HttpMessage(status) ==
  CASE status = 404 -> "HTTP 404"
    [] status = 500 -> "HTTP 500"
    [] OTHER -> "HTTP"

\* error.message?.includes("fields"), over the messages of the model
IncludesFields(message) ==
  message = "'fields' query not specified"

\* the parser of the endpoint at position i of apiEndpoints
EndpointParser(i, data) ==
  CASE i \in {1, 2} -> parseRestCountriesV3(data)
    [] i = 3 -> parseNextJsCountries(data)
    [] OTHER -> parseRestCountriesV2(data)

\* responseData is an error object
IsErrorBody(responseData) ==
  \/ responseData.status = 400
  \/ responseData.message = "Not Found"
  \/ responseData.embedded

Threw(kind, message) ==
  [threw |-> TRUE, kind |-> kind, message |-> message, parsed |-> ParsedNull]

\* one pass of the body of the endpoint loop, up to the parser's return
Attempt(i, response) ==
  IF response.rejected THEN Threw("rejected", "Failed to fetch")
  ELSE IF ~response.ok THEN Threw("http", HttpMessage(response.httpStatus))
  ELSE IF IsErrorBody(response.json)
    THEN Threw("errorBody", Or(response.json.message, "API error"))
  ELSE LET p == EndpointParser(i, response.json)
       IN  IF p.threw
             THEN Threw("parserThrew", "Cannot read properties of null")
             ELSE [threw |-> FALSE,
                   kind |-> IF p.isNull THEN "unrecognised"
                            ELSE IF Len(p.list) = 0 THEN "empty" ELSE "ok",
                   message |-> "", parsed |-> p]

\* if (flags && flags.length > 0): the source is taken and the loop left
SourceTaken(parsed) ==
  ~parsed.isNull /\ Len(parsed.list) > 0

\* mutant: only a null result counts as nothing loaded
NothingLoaded_NullOnly(parsed) ==
  parsed.isNull

\* if (!flags || flags.length === 0) after the loop
NothingLoaded(parsed) ==
  parsed.isNull \/ Len(parsed.list) = 0

NoError ==
  [src |-> 0, message |-> ""]

GenericError ==
  [src |-> 0, message |-> "All API endpoints failed"]

\* mutant: the loop is never left early
LeavesLoop_Never(parsed) ==
  FALSE

\* mutant: the loop is left on any list, an empty one too
LeavesLoop_OnAnyList(parsed) ==
  ~parsed.isNull

\* leaves the endpoint loop (break) once a source is taken
LeavesLoop(parsed) ==
  SourceTaken(parsed)

(***************************************************************************)
(* State.                                                                  *)
(***************************************************************************)
VARIABLES
  \* fields of FlagGame
  flags, isLoading, isAnimating, isShuffling, currentFlag, countdownInterval,
  \* the page: class "hidden" of startScreen, class "active" of loadingScreen
  \* and gameScreen, flagImage.src, countdownContainer.style.display,
  \* countdownNumber.textContent, class "visible" of countryNameContainer,
  \* countryName.textContent
  startHidden, loadingActive, gameActive, flagSrc, countdownDisplay,
  countdownText, nameVisible, nameText,
  \* tweens whose onComplete is still to run: the fade-outs of the start
  \* screen (a count) and of the loading screen
  startFades, loadFade,
  \* loadFlags: the endpoint whose fetch is awaited (0: none), the locals
  \* flags and lastError, the kind of the last settled attempt, how the last
  \* run ended, the error its catch block received and the alert it showed
  fetching, localFlags, lastError, lastOutcome, loadResult, caught, alertMsg,
  \* history: the endpoints the last run has fetched, in the order of the
  \* requests, and the endpoint and the response it took its flags from
  fetchLog, taken,
  \* the rounds whose playRound body has been entered, by slot
  rounds

gameVars ==
  <<flags, isLoading, isAnimating, isShuffling, currentFlag, countdownInterval>>

pageVars ==
  <<startHidden, loadingActive, gameActive, flagSrc, countdownDisplay,
    countdownText, nameVisible, nameText>>

tweenVars ==
  <<startFades, loadFade>>

loaderVars ==
  <<fetching, localFlags, lastError, lastOutcome, loadResult, caught,
    alertMsg>>

vars ==
  <<gameVars, pageVars, tweenVars, loaderVars, fetchLog, taken, rounds>>

NotTaken ==
  [src |-> 0, response |-> NoResponse]

\* currentFlag before the first selection, and flags[i] of an empty array
JsNull ==
  Entry("<null>", "<null>", "<null>", "<null>")

JsUndefined ==
  Entry(Undef, Undef, Undef, Undef)

Slots ==
  1..MaxRounds

\* pc: "free", "shuffling" (timeline running), "stalled" (timeline stopped by
\* a throwing onStart), "crashed" (playRound rejected after the shuffle),
\* "revealing" (reveal tween running), "counting" (interval running),
\* "countFade" (fade-out of the number running)
FreeSlot ==
  [pc |-> "free", framesLeft |-> 0, framesOk |-> TRUE, count |-> 0,
   timer |-> FALSE]

\* countdownNumber.textContent = count
NumText(n) ==
  CASE n = 0 -> "0"
    [] n = 1 -> "1"
    [] n = 2 -> "2"
    [] n = 3 -> "3"
    [] OTHER -> "-"

Init ==
  /\ flags = <<>>
  /\ isLoading = FALSE
  /\ isAnimating = FALSE
  /\ isShuffling = FALSE
  /\ currentFlag = JsNull
  /\ countdownInterval = 0
  /\ startHidden = FALSE
  /\ loadingActive = FALSE
  /\ gameActive = FALSE
  /\ flagSrc = ""
  /\ countdownDisplay \in {"none", "flex"}
  /\ countdownText = ""
  /\ nameVisible = FALSE
  /\ nameText = ""
  /\ startFades = 0
  /\ loadFade = FALSE
  /\ fetching = 0
  /\ localFlags = ParsedNull
  /\ lastError = NoError
  /\ lastOutcome = "none"
  /\ loadResult = "none"
  /\ caught = NoError
  /\ alertMsg = ""
  /\ fetchLog = <<>>
  /\ taken = NotTaken
  /\ rounds = [r \in Slots |-> FreeSlot]

(***************************************************************************)
(* playRound, up to its await of the shuffle timeline.                     *)
(***************************************************************************)
playRoundVars ==
  <<rounds, isShuffling, isAnimating, gameActive, countdownDisplay,
    countdownText, nameVisible, nameText>>

\* mutant: the guard tests isShuffling alone
playRoundBlocked_ShufflingOnly ==
  isShuffling

\* if (this.isShuffling || this.isAnimating) return;
playRoundBlocked ==
  isShuffling \/ isAnimating

\* mutant: the name of the round before is left in place
clearedCountryName_Kept ==
  nameText

\* this.countryName.textContent = ""
clearedCountryName ==
  ""

ShuffleCounts ==
  MinShuffleCount..(MinShuffleCount + ShuffleCountSpread - 1)

\* shuffleFlags builds the timeline: every frame's randomFlag is drawn now,
\* and is undefined when this.flags is empty
playRoundBody ==
  /\ \E r \in Slots : rounds[r].pc = "free"
  /\ LET r == CHOOSE s \in Slots :
                /\ rounds[s].pc = "free"
                /\ \A q \in Slots : rounds[q].pc = "free" => s <= q
     IN  \E n \in ShuffleCounts :
           rounds' = [rounds EXCEPT ![r] =
                        [pc |-> "shuffling", framesLeft |-> n,
                         framesOk |-> Len(flags) > 0, count |-> 0,
                         timer |-> FALSE]]
  /\ isShuffling' = TRUE
  /\ isAnimating' = TRUE
  /\ gameActive' = TRUE
  /\ countdownDisplay' = "flex"
  /\ countdownText' = "1"
  /\ nameVisible' = FALSE
  /\ nameText' = clearedCountryName

playRound ==
  IF playRoundBlocked THEN UNCHANGED playRoundVars ELSE playRoundBody

(***************************************************************************)
(* startGame and loadFlags up to its first await.                          *)
(***************************************************************************)
\* mutant: the guard does not test isAnimating
startGameBlocked_NoAnimating ==
  isShuffling \/ isLoading

\* if (this.isAnimating || this.isShuffling || this.isLoading) return;
startGameBlocked ==
  isAnimating \/ isShuffling \/ isLoading

\* mutant: every start loads again
flagsNotLoaded_Always ==
  TRUE

\* if (this.flags.length === 0)
flagsNotLoaded ==
  Len(flags) = 0

loadFlagsCall ==
  /\ isLoading' = TRUE
  /\ loadingActive' = TRUE
  /\ fetching' = 1
  /\ fetchLog' = <<1>>
  /\ localFlags' = ParsedNull
  /\ lastError' = NoError
  /\ lastOutcome' = "none"
  /\ loadResult' = "pending"
  /\ caught' = NoError
  /\ alertMsg' = ""

startGame ==
  IF startGameBlocked THEN UNCHANGED vars
  ELSE /\ startFades < MaxFades
       /\ startFades' = startFades + 1
       /\ IF flagsNotLoaded
            THEN /\ loadFlagsCall
                 /\ UNCHANGED playRoundVars
            ELSE /\ playRound
                 /\ UNCHANGED <<isLoading, loadingActive, loaderVars,
                                fetchLog>>
       /\ UNCHANGED <<flags, currentFlag, countdownInterval, startHidden,
                      flagSrc, loadFade, taken>>

\* click on the enter button
Click ==
  startGame

\* keydown with key "Enter"
EnterKey ==
  IF startHidden
    THEN IF ~isShuffling
           THEN /\ playRound
                /\ UNCHANGED <<flags, isLoading, currentFlag,
                               countdownInterval, startHidden, loadingActive,
                               flagSrc, tweenVars, loaderVars, fetchLog,
                               taken>>
           ELSE UNCHANGED vars
    ELSE startGame

\* onComplete of a start-screen fade-out
StartFadeComplete ==
  /\ startFades > 0
  /\ startFades' = startFades - 1
  /\ startHidden' = TRUE
  /\ UNCHANGED <<gameVars, loadingActive, gameActive, flagSrc,
                 countdownDisplay, countdownText, nameVisible, nameText,
                 loadFade, loaderVars, fetchLog, taken, rounds>>

(***************************************************************************)
(* loadFlags: the awaited fetch of the current endpoint settles, and the   *)
(* function runs on to its next await or to its end, where its locals go   *)
(* out of scope.                                                           *)
(***************************************************************************)
\* the catch block of loadFlags
loadFlagsCatch(error) ==
  /\ caught' = error
  /\ alertMsg' = IF IncludesFields(error.message)
                   THEN "API sozlamalari o'zgardi"
                   ELSE "Bayroqlarni yuklashda xatolik yuz berdi"
  /\ isLoading' = FALSE
  /\ loadingActive' = FALSE
  /\ startHidden' = FALSE
  /\ loadResult' = "failure"
  /\ loadFade' = loadFade

\* the end of the try block: the loading screen starts to fade out
loadFlagsSucceed ==
  /\ loadFade' = TRUE
  /\ loadResult' = "success"
  /\ UNCHANGED <<caught, alertMsg, isLoading, loadingActive, startHidden>>

\* mutant: only the first error is kept
errorAfterAttempt_KeepsFirst(i, a) ==
  IF a.threw /\ lastError = NoError
    THEN [src |-> i, message |-> a.message]
    ELSE lastError

\* lastError after the loop body: the catch assigns it the error thrown
errorAfterAttempt(i, a) ==
  IF a.threw
    THEN [src |-> i, message |-> a.message]
    ELSE lastError

loadFlagsResume(a) ==
  /\ fetching # 0
  /\ LET i == fetching
         newFlags == IF a.threw THEN localFlags ELSE a.parsed
         newError == errorAfterAttempt(i, a)
         taking == ~a.threw /\ SourceTaken(a.parsed)
         leaves == ~a.threw /\ LeavesLoop(a.parsed)
     IN  /\ lastOutcome' = a.kind
         /\ flags' = IF taking THEN a.parsed.list ELSE flags
         /\ IF ~leaves /\ i < NumSources
              THEN /\ fetching' = i + 1
                   /\ fetchLog' = Append(fetchLog, i + 1)
                   /\ localFlags' = newFlags
                   /\ lastError' = newError
                   /\ UNCHANGED <<caught, alertMsg, isLoading, loadingActive,
                                  startHidden, loadResult, loadFade>>
              ELSE /\ fetching' = 0
                   /\ fetchLog' = fetchLog
                   /\ localFlags' = ParsedNull
                   /\ lastError' = NoError
                   /\ IF NothingLoaded(newFlags)
                        THEN loadFlagsCatch(IF newError = NoError
                                              THEN GenericError
                                              ELSE newError)
                        ELSE loadFlagsSucceed
  /\ UNCHANGED <<isAnimating, isShuffling, currentFlag, countdownInterval,
                 gameActive, flagSrc, countdownDisplay, countdownText,
                 nameVisible, nameText, startFades, rounds>>

\* what the loop body makes of the responses endpoint i can give
Attempts ==
  [i \in 1..NumSources |-> { Attempt(i, response) : response \in Responses }]

\* the fetch of the current endpoint settles, with some response
FetchSettles ==
  /\ fetching # 0
  /\ \E a \in Attempts[fetching] : loadFlagsResume(a)
  /\ UNCHANGED taken

\* onComplete of the loading screen's fade-out
LoadFadeComplete ==
  /\ loadFade
  /\ loadFade' = FALSE
  /\ loadingActive' = FALSE
  /\ isLoading' = FALSE
  /\ playRound
  /\ UNCHANGED <<flags, currentFlag, countdownInterval, startHidden, flagSrc,
                 startFades, loaderVars, fetchLog, taken>>

(***************************************************************************)
(* The round: shuffle timeline, selection, reveal, countdown, name.        *)
(***************************************************************************)
FlagSet ==
  { flags[i] : i \in 1..Len(flags) }

\* onStart of the next frame of the shuffle timeline of round r.  A frame
\* drawn from an empty this.flags is undefined and its onStart throws inside
\* the animation ticker; the timeline then either goes on or stops.
ShuffleFrame(r) ==
  /\ rounds[r].pc = "shuffling"
  /\ rounds[r].framesLeft > 0
  /\ IF rounds[r].framesOk
       THEN /\ \E randomFlag \in FlagSet : flagSrc' = randomFlag.flagUrl
            /\ rounds' = [rounds EXCEPT ![r].framesLeft = @ - 1]
       ELSE /\ flagSrc' = flagSrc
            /\ \/ rounds' = [rounds EXCEPT ![r].framesLeft = @ - 1]
               \/ rounds' = [rounds EXCEPT ![r].pc = "stalled"]
  /\ UNCHANGED <<gameVars, startHidden, loadingActive, gameActive,
                 countdownDisplay, countdownText, nameVisible, nameText,
                 tweenVars, loaderVars, fetchLog, taken>>

\* mutant: the countdown is started at once, without the reveal tween
ShuffleComplete_SkipsReveal(r) ==
  /\ rounds[r].pc = "shuffling"
  /\ rounds[r].framesLeft = 0
  /\ Len(flags) > 0
  /\ \E randomIndex \in 1..Len(flags) :
       /\ currentFlag' = flags[randomIndex]
       /\ flagSrc' = flags[randomIndex].flagUrl
  /\ isShuffling' = FALSE
  /\ countdownInterval' = r
  /\ rounds' = [rounds EXCEPT ![r].pc = "counting",
                              ![r].count = CountdownStart,
                              ![r].timer = TRUE]
  /\ UNCHANGED <<flags, isLoading, isAnimating, startHidden, loadingActive,
                 gameActive, countdownDisplay, countdownText, nameVisible,
                 nameText, tweenVars, loaderVars, fetchLog, taken>>

\* mutant: the entry selected in the round before is not selected again
ShuffleComplete_AvoidsRepeat(r) ==
  /\ rounds[r].pc = "shuffling"
  /\ rounds[r].framesLeft = 0
  /\ IF Len(flags) = 0
       THEN /\ currentFlag' = JsUndefined
            /\ flagSrc' = flagSrc
            /\ rounds' = [rounds EXCEPT ![r].pc = "crashed"]
       ELSE \E randomIndex \in 1..Len(flags) :
              /\ flags[randomIndex] # currentFlag
              /\ currentFlag' = flags[randomIndex]
              /\ flagSrc' = flags[randomIndex].flagUrl
              /\ rounds' = [rounds EXCEPT ![r].pc = "revealing"]
  /\ UNCHANGED <<flags, isLoading, isAnimating, isShuffling,
                 countdownInterval, startHidden, loadingActive, gameActive,
                 countdownDisplay, countdownText, nameVisible, nameText,
                 tweenVars, loaderVars, fetchLog, taken>>

\* the timeline of round r completes and playRound resumes after its await:
\* it selects the final flag, shows it and starts the reveal tween
ShuffleComplete(r) ==
  /\ rounds[r].pc = "shuffling"
  /\ rounds[r].framesLeft = 0
  /\ IF Len(flags) = 0
       THEN /\ currentFlag' = JsUndefined
            /\ flagSrc' = flagSrc
            /\ rounds' = [rounds EXCEPT ![r].pc = "crashed"]
       ELSE \E randomIndex \in 1..Len(flags) :
              /\ currentFlag' = flags[randomIndex]
              /\ flagSrc' = flags[randomIndex].flagUrl
              /\ rounds' = [rounds EXCEPT ![r].pc = "revealing"]
  /\ UNCHANGED <<flags, isLoading, isAnimating, isShuffling,
                 countdownInterval, startHidden, loadingActive, gameActive,
                 countdownDisplay, countdownText, nameVisible, nameText,
                 tweenVars, loaderVars, fetchLog, taken>>

\* mutant: startCountdown clears isAnimating along with isShuffling
RevealComplete_ReleasesLock(r) ==
  /\ rounds[r].pc = "revealing"
  /\ isShuffling' = FALSE
  /\ isAnimating' = FALSE
  /\ countdownDisplay' = "flex"
  /\ countdownText' = NumText(CountdownStart)
  /\ nameVisible' = FALSE
  /\ countdownInterval' = r
  /\ rounds' = [rounds EXCEPT ![r].pc = "counting",
                              ![r].count = CountdownStart,
                              ![r].timer = TRUE]
  /\ UNCHANGED <<flags, isLoading, currentFlag, startHidden, loadingActive,
                 gameActive, flagSrc, nameText, tweenVars, loaderVars,
                 fetchLog, taken>>

\* onComplete of the reveal tween of round r: startCountdown
RevealComplete(r) ==
  /\ rounds[r].pc = "revealing"
  /\ isShuffling' = FALSE
  /\ countdownDisplay' = "flex"
  /\ countdownText' = NumText(CountdownStart)
  /\ nameVisible' = FALSE
  /\ countdownInterval' = r
  /\ rounds' = [rounds EXCEPT ![r].pc = "counting",
                              ![r].count = CountdownStart,
                              ![r].timer = TRUE]
  /\ UNCHANGED <<flags, isLoading, isAnimating, currentFlag, startHidden,
                 loadingActive, gameActive, flagSrc, nameText, tweenVars,
                 loaderVars, fetchLog, taken>>

\* mutant: the interval is left running
ClearInterval_Forgotten(rs) ==
  rs

\* clearInterval(this.countdownInterval)
ClearInterval(rs) ==
  IF countdownInterval \in Slots
    THEN [rs EXCEPT ![countdownInterval].timer = FALSE]
    ELSE rs

\* the interval of round r fires
Tick(r) ==
  /\ rounds[r].pc = "counting"
  /\ rounds[r].timer
  /\ LET count == rounds[r].count - 1
     IN  IF count > 0
           THEN /\ rounds' = [rounds EXCEPT ![r].count = count]
                /\ countdownText' = NumText(count)
           ELSE /\ rounds' = ClearInterval([rounds EXCEPT ![r].count = count,
                                                          ![r].pc = "countFade"])
                /\ countdownText' = countdownText
  /\ UNCHANGED <<gameVars, startHidden, loadingActive, gameActive, flagSrc,
                 countdownDisplay, nameVisible, nameText, tweenVars,
                 loaderVars, fetchLog, taken>>

\* if (!this.currentFlag) return;
showCountryNameSkipped ==
  currentFlag \in {JsNull, JsUndefined}

\* mutant: showCountryName does not clear isAnimating
CountFadeComplete_KeepsLock(r) ==
  /\ rounds[r].pc = "countFade"
  /\ countdownDisplay' = "none"
  /\ rounds' = [rounds EXCEPT ![r] = FreeSlot]
  /\ IF showCountryNameSkipped
       THEN UNCHANGED <<nameText, nameVisible>>
       ELSE /\ nameText' = currentFlag.nameUzbek
            /\ nameVisible' = TRUE
  /\ UNCHANGED <<flags, isLoading, isAnimating, isShuffling, currentFlag,
                 countdownInterval, startHidden, loadingActive, gameActive,
                 flagSrc, countdownText, tweenVars, loaderVars, fetchLog,
                 taken>>

\* onComplete of the fade-out of the countdown number of round r:
\* the countdown is hidden and showCountryName runs
CountFadeComplete(r) ==
  /\ rounds[r].pc = "countFade"
  /\ countdownDisplay' = "none"
  /\ rounds' = [rounds EXCEPT ![r] = FreeSlot]
  /\ IF showCountryNameSkipped
       THEN UNCHANGED <<nameText, nameVisible, isAnimating>>
       ELSE /\ nameText' = currentFlag.nameUzbek
            /\ nameVisible' = TRUE
            /\ isAnimating' = FALSE
  /\ UNCHANGED <<flags, isLoading, isShuffling, currentFlag,
                 countdownInterval, startHidden, loadingActive, gameActive,
                 flagSrc, countdownText, tweenVars, loaderVars, fetchLog,
                 taken>>

Next ==
  \/ Click
  \/ EnterKey
  \/ StartFadeComplete
  \/ FetchSettles
  \/ LoadFadeComplete
  \/ \E r \in Slots : ShuffleFrame(r)
  \/ \E r \in Slots : ShuffleComplete(r)
  \/ \E r \in Slots : RevealComplete(r)
  \/ \E r \in Slots : Tick(r)
  \/ \E r \in Slots : CountFadeComplete(r)

Spec ==
  Init /\ [][Next]_vars

(***************************************************************************)
(* The game with its callbacks scheduled fairly: a tween, a timeline, an   *)
(* interval or a fetch that is pending runs its callback in the end.  The  *)
(* user's clicks and key presses are under no such obligation.             *)
(***************************************************************************)
FairSpec ==
  /\ Spec
  /\ WF_vars(StartFadeComplete)
  /\ WF_vars(FetchSettles)
  /\ WF_vars(LoadFadeComplete)
  /\ \A r \in Slots :
       /\ WF_vars(ShuffleFrame(r))
       /\ WF_vars(ShuffleComplete(r))
       /\ WF_vars(RevealComplete(r))
       /\ WF_vars(Tick(r))
       /\ WF_vars(CountFadeComplete(r))

(***************************************************************************)
(* The loader alone, with the history of the response it took: the game    *)
(* driven by clicks up to the end of loadFlags.                            *)
(***************************************************************************)
FetchSettlesTaking(response) ==
  /\ fetching # 0
  /\ loadFlagsResume(Attempt(fetching, response))
  /\ taken' = IF flags' # flags
                THEN [src |-> fetching, response |-> response]
                ELSE taken

LoaderNext ==
  \/ Click
  \/ StartFadeComplete
  \/ \E response \in Responses : FetchSettlesTaking(response)

LoaderSpec ==
  Init /\ [][LoaderNext]_vars

(***************************************************************************)
(* Derived notions.                                                        *)
(***************************************************************************)
\* the mutual-exclusion lock of the round
Locked ==
  isShuffling \/ isAnimating

ActiveSlots ==
  { r \in Slots : rounds[r].pc # "free" }

\* rounds entered that have not reached showCountryName
RoundsInProgress ==
  Cardinality(ActiveSlots)

LiveTimelines ==
  Cardinality({ r \in Slots : rounds[r].pc \in {"shuffling", "stalled"} })

LiveIntervals ==
  Cardinality({ r \in Slots : rounds[r].timer })

PcPhase(pc) ==
  CASE pc \in {"shuffling", "stalled", "crashed"} -> "Shuffling"
    [] pc = "revealing" -> "Revealing"
    [] OTHER -> "CountingDown"

\* the phase of the round: that of the round in progress, and between rounds
\* NameShown while the country name is displayed, Idle otherwise
Phase ==
  IF ActiveSlots # {}
    THEN PcPhase(rounds[CHOOSE r \in ActiveSlots :
                          \A q \in ActiveSlots : r <= q].pc)
    ELSE IF nameVisible THEN "NameShown" ELSE "Idle"

PhaseEdges ==
  { <<"Idle", "Shuffling">>, <<"NameShown", "Shuffling">>,
    <<"Shuffling", "Revealing">>, <<"Revealing", "CountingDown">>,
    <<"CountingDown", "CountingDown">>, <<"CountingDown", "NameShown">>,
    <<"NameShown", "Idle">> }

FailureKinds ==
  {"rejected", "http", "errorBody", "parserThrew", "unrecognised", "empty"}

NoFlag ==
  {JsNull, JsUndefined}

(***************************************************************************)
(* Claims.                                                                 *)
(***************************************************************************)

\* C1: at most one round is in progress at any time: no second playRound
\* body is entered before the round before it has reached showCountryName,
\* so there are never two shuffle timelines or two countdown intervals.
C1_OneRoundAtATime ==
  /\ RoundsInProgress <= 1
  /\ LiveTimelines <= 1
  /\ LiveIntervals <= 1

\* a round is counting down with the start screen hidden, where an Enter
\* press gets as far as the guard of playRound
C1_Witness ==
  /\ RoundsInProgress = 1
  /\ LiveIntervals = 1
  /\ startHidden
  /\ ~isShuffling

\* C2: a start request (click or Enter) made while isShuffling or
\* isAnimating is set changes nothing at all: no field, no text or image of
\* the page, no fetch, no timeline, no timer.
C2_LockedRequestNoEffect ==
  [][((Click \/ EnterKey) /\ Locked) => UNCHANGED vars]_vars

\* the lock is held by isAnimating alone (countdown), the working set is
\* loaded and the click's fade bound is not reached: only the guards stop a
\* start request here
C2_Witness ==
  /\ isAnimating
  /\ ~isShuffling
  /\ ~isLoading
  /\ Len(flags) > 0
  /\ startFades < MaxFades

\* C3: the phase changes only along Idle->Shuffling, NameShown->Shuffling,
\* Shuffling->Revealing, Revealing->CountingDown, CountingDown->CountingDown,
\* CountingDown->NameShown and NameShown->Idle.
C3_PhaseEdges ==
  [][Phase' = Phase \/ <<Phase, Phase'>> \in PhaseEdges]_vars

\* a second round is shuffling: it was started from NameShown, after a first
\* round went through every phase
C3_Witness ==
  /\ Phase = "Shuffling"
  /\ currentFlag \notin NoFlag
  /\ ~nameVisible

\* C4 (as claimed): while isLoading is set no start request enters a round,
\* so no round is in progress while the loader is in flight.
C4_NoRoundWhileLoading ==
  isLoading => ~Locked

\* C5 (as claimed): every entry of this.flags has a non-empty flagUrl and a
\* name of the allow-list.
C5_WorkingSetUsable ==
  \A i \in 1..Len(flags) :
    /\ Truthy(flags[i].flagUrl)
    /\ flags[i].name \in popularCountryNames

\* C6: within a run the endpoints are fetched one after another in their
\* order, and once an endpoint has yielded a non-empty filtered list no
\* later endpoint is fetched and this.flags is that endpoint's filtered list.
C6_FirstUsableSourceWins ==
  /\ fetchLog = [k \in 1..Len(fetchLog) |-> k]
  /\ fetching \in {0, Len(fetchLog)}
  /\ taken.src # 0 =>
       /\ fetching = 0
       /\ Len(fetchLog) = taken.src
       /\ Len(flags) > 0
       /\ flags = EndpointParser(taken.src, taken.response.json).list

\* the third endpoint was reached and taken, with two entries
C6_Witness ==
  /\ taken.src = 3
  /\ fetchLog = <<1, 2, 3>>
  /\ Len(flags) = 2

\* C7: after an attempt that failed in any way (rejected fetch, non-success
\* status, error body, body the parser does not recognise or throws on, empty
\* filtered list) the loader awaits the next endpoint; a run ends in failure
\* only when all endpoints have been fetched.
C7_FailureGoesOn ==
  lastOutcome \in FailureKinds =>
    \/ /\ fetching = Len(fetchLog)
       /\ fetching > 1
       /\ loadResult = "pending"
    \/ /\ fetching = 0
       /\ Len(fetchLog) = NumSources
       /\ loadResult = "failure"

\* the third endpoint gave an empty filtered list and the fourth is awaited
C7_Witness ==
  /\ lastOutcome = "empty"
  /\ fetching = NumSources
  /\ lastError.src = 2

\* C8: a run in which every endpoint failed or gave an empty list ends in
\* failure: alert shown, this.flags empty, no fade-out of the loading screen
\* (whose callback would start a round), isLoading reset.
C8_AllFailedIsFailure ==
  (fetching = 0 /\ lastOutcome \in FailureKinds) =>
    /\ loadResult = "failure"
    /\ alertMsg # ""
    /\ Len(flags) = 0
    /\ ~loadFade
    /\ ~isLoading

\* a run failed although no endpoint threw: every parser returned null or
\* an empty list
C8_Witness ==
  /\ loadResult = "failure"
  /\ caught = GenericError
  /\ lastOutcome = "empty"

\* C9 (as claimed): after a failed load the game rests in its pre-load state,
\* with the start screen visible.
C9_RestAfterFailure ==
  loadResult = "failure" =>
    /\ Len(flags) = 0
    /\ ~isLoading
    /\ ~loadingActive
    /\ ~startHidden

\* C10: once this.flags is loaded it is never assigned again and no fetch
\* is issued any more.
C10_LoadedOnce ==
  [][Len(flags) > 0 =>
       /\ flags' = flags
       /\ fetchLog' = fetchLog
       /\ fetching' = fetching]_vars

\* the flags came from the second endpoint, the loader has ended, and a
\* further round is being shuffled on them after an earlier selection
C10_Witness ==
  /\ loadResult = "success"
  /\ fetchLog = <<1, 2>>
  /\ ~isLoading
  /\ ~loadFade
  /\ isShuffling
  /\ currentFlag \notin NoFlag

\* C11 (as claimed): currentFlag is cleared when a round ends or a new one
\* starts: in the phases Idle and Shuffling it holds no selection, so a round
\* that is shuffling never carries the selection of the round before it.
C11_NoSelectionBeforeReveal ==
  Phase \in {"Idle", "Shuffling"} => currentFlag \in NoFlag

\* C12 (as claimed): after the name is shown the game resets to Idle by
\* itself: with timers and animation callbacks scheduled fairly, NameShown is
\* always followed in the end by Idle (name hidden, flag image cleared).
C12_NameShownLeadsToIdle ==
  (Phase = "NameShown") ~> (Phase = "Idle")

C14_ThreeSecondCountdown ==
  [][\A r \in Slots :
       /\ (rounds[r].pc = "revealing" /\ rounds'[r].pc = "counting") =>
            /\ rounds'[r].count = 3
            /\ countdownText' = "3"
       /\ (rounds[r].pc = "counting" /\ rounds'[r].pc = "countFade") =>
            /\ rounds[r].count = 1
            /\ countdownText = "1"
            /\ countdownText' = "1"]_vars

\* C15: the name shown at NameShown is the localized name of the entry
\* selected in this round (the selection made on entry into Revealing stays
\* untouched until the name is shown), and whenever the country-name text is
\* non-empty the flag image shown is the image of that same entry.
C15_NameMatchesSelection ==
  /\ [](nameText # "" =>
          /\ Phase = "NameShown"
          /\ currentFlag \in FlagSet
          /\ nameText = currentFlag.nameUzbek
          /\ flagSrc = currentFlag.flagUrl)
  /\ [][(Phase = "Shuffling" /\ Phase' = "Revealing") =>
          /\ currentFlag' \in FlagSet
          /\ flagSrc' = currentFlag'.flagUrl]_vars
  /\ [][(Phase \in {"Revealing", "CountingDown"}) =>
          /\ currentFlag' = currentFlag
          /\ flagSrc' = flagSrc]_vars

\* the name of the second of two loaded entries is shown after a shuffle
\* whose frames showed other images
C15_Witness ==
  /\ Len(flags) = 2
  /\ currentFlag = flags[2]
  /\ flags[1].flagUrl # flags[2].flagUrl
  /\ nameText = flags[2].nameUzbek
  /\ nameText # flags[2].name
  /\ nameVisible

\* C16: the lock (isShuffling or isAnimating) is taken when a start request
\* is accepted, is held in every state of Shuffling, Revealing and
\* CountingDown (during the countdown by isAnimating alone, isShuffling
\* having been cleared), and is released by the very step that displays the
\* country name.
C16_LockHeldThroughRound ==
  /\ [](Locked <=> Phase \in {"Shuffling", "Revealing", "CountingDown"})
  /\ [](Phase = "CountingDown" => (~isShuffling /\ isAnimating))
  /\ [][(~Locked /\ Locked') =>
          /\ Phase' = "Shuffling"
          /\ isShuffling'
          /\ isAnimating']_vars
  /\ [][(Locked /\ ~Locked') =>
          /\ Phase = "CountingDown"
          /\ Phase' = "NameShown"
          /\ ~nameVisible
          /\ nameVisible'
          /\ nameText' = currentFlag.nameUzbek]_vars

\* the countdown of a round runs: isShuffling is cleared and isAnimating
\* alone holds the lock, with the start screen hidden so that an Enter press
\* gets past the listener's isShuffling test
C16_Witness ==
  /\ Phase = "CountingDown"
  /\ ~isShuffling
  /\ isAnimating
  /\ startHidden
  /\ Len(flags) > 0

\* C17: in NameShown the lock is free and the working set is loaded, and an
\* Enter key press starts a new round: the press is taken, the phase becomes
\* Shuffling and the lock is held again, round after round.  (A press that
\* goes through startGame adds a start-screen fade, which the model caps at
\* MaxFades.)
C17_EnterRepeatsRound ==
  /\ []((Phase = "NameShown" /\ (startHidden \/ startFades < MaxFades)) =>
          /\ ~Locked
          /\ Len(flags) > 0
          /\ ENABLED (EnterKey /\ Locked' /\ isShuffling' /\ ~nameVisible'))
  /\ [][(EnterKey /\ Phase = "NameShown") =>
          /\ Phase' = "Shuffling"
          /\ Locked'
          /\ nameText' = ""]_vars

\* a round has shown the name of the first of two loaded entries, the start
\* screen is hidden and the loading screen's fade-out is over: the Enter
\* press goes straight to playRound
C17_Witness ==
  /\ Phase = "NameShown"
  /\ ~Locked
  /\ ~isLoading
  /\ startHidden
  /\ Len(flags) = 2
  /\ currentFlag = flags[1]
  /\ flagSrc = flags[1].flagUrl

\* C18 (as claimed): a record that is missing or malformed (no image address,
\* a shape the parser does not read, a null element of the array) is dropped
\* silently: no attempt fails by the parser throwing on it, and every other
\* record of the response taken that has an image address and an allow-listed
\* name has its entry in this.flags.
C18_MalformedRecordDropped ==
  /\ lastOutcome # "parserThrew"
  /\ taken.src # 0 =>
       LET countries == taken.response.json.countries
           entry(c) == CASE taken.src \in {1, 2} -> V3Entry(c)
                         [] taken.src = 3 -> NextJsEntry(c)
                         [] OTHER -> V2Entry(c)
       IN  \A k \in 1..Len(countries) :
             (/\ ~countries[k].isNull
              /\ HasFlagsImage(countries[k])
              /\ entry(countries[k]).name \in popularCountryNames) =>
               \E j \in 1..Len(flags) : flags[j] = entry(countries[k])

\* C19: every entry of this.flags has as nameUzbek the translation table's
\* value for its name when the table has the name, and the name itself
\* otherwise; nameUzbek is never empty or undefined.
C19_NameUzbekTranslated ==
  \A i \in 1..Len(flags) :
    /\ flags[i].nameUzbek = IF flags[i].name \in DOMAIN translations
                              THEN translations[flags[i].name]
                              ELSE flags[i].name
    /\ flags[i].nameUzbek \notin {"", Undef, ObjectName}

\* the working set came from the third endpoint and holds an entry whose
\* name was read from name.common and whose translation differs from it
C19_Witness ==
  /\ fetchLog = <<1, 2, 3>>
  /\ loadResult = "success"
  /\ \E i \in 1..Len(flags) :
       /\ flags[i].name = "Japan"
       /\ flags[i].nameUzbek = "Yaponiya"
  /\ \E i \in 1..Len(flags) : flags[i].nameUzbek = flags[i].name

\* C20: the error handed to the catch block of loadFlags after the last
\* endpoint is the last error thrown in endpoint order: lastError is at every
\* point the error of the highest endpoint that has thrown so far, an attempt
\* that throws replaces it and an attempt that does not leaves it alone; the
\* generic error is handed over only when no endpoint threw.
C20_LastErrorSurfaced ==
  /\ [](/\ fetching = 0 => lastError = NoError
        /\ fetching # 0 => lastError.src < fetching
        /\ lastError.src # 0 => lastError.message \notin {"", GenericError.message})
  /\ [][(fetching # 0 /\ fetching' \notin {0, fetching}) =>
          IF lastOutcome' \in {"rejected", "http", "errorBody", "parserThrew"}
            THEN /\ lastError'.src = fetching
                 /\ lastError'.message \notin {"", GenericError.message}
            ELSE lastError' = lastError]_vars
  /\ [][(fetching # 0 /\ loadResult' = "failure") =>
          /\ fetching = NumSources
          /\ IF lastOutcome' \in {"rejected", "http", "errorBody", "parserThrew"}
               THEN /\ caught'.src = NumSources
                    /\ caught'.message \notin {"", GenericError.message}
               ELSE caught' = IF lastError = NoError
                                THEN GenericError
                                ELSE lastError]_vars

\* the run failed with the second endpoint's error: the third and fourth
\* endpoints were fetched after it and did not throw
C20_Witness ==
  /\ loadResult = "failure"
  /\ fetchLog = <<1, 2, 3, 4>>
  /\ caught.src = 2
  /\ caught.message = "HTTP 404"
  /\ lastOutcome = "unrecognised"

\* C21 (as claimed): within a round the effects of the phases come strictly
\* one after another: the countdown display is hidden from the start of the
\* round until the reveal tween has completed, the final flag is set only by
\* the step that ends the shuffle timeline, and the country name is shown
\* only by the step that ends the countdown's fade-out.
C21_EffectsSerialized ==
  /\ []((Phase \in {"Shuffling", "Revealing"}) => countdownDisplay = "none")
  /\ []((Phase \in {"Shuffling", "Revealing", "CountingDown"}) =>
          (~nameVisible /\ nameText = ""))
  /\ [][(currentFlag' # currentFlag) =>
          \E r \in Slots : /\ rounds[r].pc = "shuffling"
                            /\ rounds[r].framesLeft = 0
                            /\ rounds'[r].pc # "shuffling"]_vars
  /\ [][(nameVisible' /\ ~nameVisible) =>
          \E r \in Slots : /\ rounds[r].pc = "countFade"
                            /\ rounds'[r].pc = "free"]_vars

\* C22: the entry a round selects when its shuffle timeline has completed
\* is a member of this.flags, and whatever frame was shown last and whatever
\* entry the round before selected, every entry of this.flags can be the one
\* selected, the entry of the round before included.
C22_SelectionUnconstrained ==
  /\ []((Phase \in {"Revealing", "CountingDown", "NameShown"}) =>
          currentFlag \in FlagSet)
  /\ [](\A r \in Slots :
          (/\ rounds[r].pc = "shuffling"
           /\ rounds[r].framesLeft = 0
           /\ Len(flags) > 0) =>
            \A e \in FlagSet :
              ENABLED (/\ ShuffleComplete(r)
                       /\ currentFlag' = e
                       /\ flagSrc' = e.flagUrl
                       /\ rounds'[r].pc = "revealing"))

\* the timeline of a second round has completed on a working set of two
\* entries: the round before selected the first entry and the last frame
\* showed the second
C22_Witness ==
  \E r \in Slots :
    /\ rounds[r].pc = "shuffling"
    /\ rounds[r].framesLeft = 0
    /\ Len(flags) = 2
    /\ flags[1].flagUrl # flags[2].flagUrl
    /\ currentFlag = flags[1]
    /\ flagSrc = flags[2].flagUrl

\* C23 (as claimed): the loader keeps no state between runs: every run
\* fetches the endpoints in the same order from the first; after a run has
\* failed, the next start request that is taken (a click or an Enter press
\* that changes anything) runs loadFlags again from the first endpoint with
\* fresh locals; and the fade-out that follows a successful run starts,
\* when no round is in its way, a round on the loaded flags.
C23_RetryAfterFailure ==
  /\ [](fetchLog = [k \in 1..Len(fetchLog) |-> k])
  /\ [][((Click \/ EnterKey) /\ loadResult = "failure" /\ vars' # vars) =>
          /\ fetching' = 1
          /\ fetchLog' = <<1>>
          /\ localFlags' = ParsedNull
          /\ lastError' = NoError
          /\ loadResult' = "pending"
          /\ isLoading']_vars
  /\ [][(loadFade /\ ~loadFade' /\ Phase = "Idle") =>
          /\ Phase' = "Shuffling"
          /\ Len(flags) > 0
          /\ \E r \in Slots : /\ rounds'[r].pc = "shuffling"
                            /\ rounds'[r].framesOk]_vars

\* C24 (as claimed): no round runs on an empty working set: whenever the
\* body of playRound has been entered (isShuffling or isAnimating set)
\* this.flags is non-empty, every frame of the shuffle is a defined entry and
\* so is the selection, whatever the interleaving of Enter presses with the
\* loader.
C24_NoRoundOnEmptyFlags ==
  /\ Locked => Len(flags) > 0
  /\ \A r \in Slots :
       /\ rounds[r].pc # "free" => rounds[r].framesOk
       /\ rounds[r].pc \notin {"stalled", "crashed"}
  /\ currentFlag # JsUndefined

\* C25 (as claimed): every start request that is taken is followed in the
\* end by NameShown with the lock released: with the animation and timer
\* callbacks scheduled fairly, isShuffling or isAnimating never stays set
\* for ever; so while the lock is held, a callback of the round is pending.
C25_RoundEndsInNameShown ==
  /\ [](Locked =>
          ENABLED (\E r \in Slots : \/ ShuffleFrame(r)
                                    \/ ShuffleComplete(r)
                                    \/ RevealComplete(r)
                                    \/ Tick(r)
                                    \/ CountFadeComplete(r)))
  /\ Locked ~> (~Locked /\ Phase = "NameShown")

====
